---- MODULE Spec2Model ----
(* A model of geogsuite.py: the GeoIP enrichment of a CSV table.            *)
(* Text is modelled as sequences of one-character strings, so that strip,   *)
(* lower, split, join and the number formats are computed, not assumed.     *)
EXTENDS Integers, Sequences, FiniteSets, TLC

VARIABLES
    fn,           \* unit runs: the function applied and its arguments
    ret,          \* unit runs: [done, v], the value it returned
    args,         \* the parsed command line
    infile,       \* the input CSV: [columns, rows]
    outfile,      \* the lines of the output CSV
    pc,           \* position in process_all / enrich_dataframe
    pos,          \* rows the chunk reader has handed out
    first,        \* process_all's first
    detected_ip,  \* process_all's detected_ip
    ip_col,       \* the resolved IP column
    df,           \* the frame in hand: [columns, rows]
    geo_series,   \* the values apply(compute) has produced so far
    enriched,     \* the frame enrich_dataframe returns
    exc,          \* the exception in flight inside the try block
    city_reader,  \* state of the location handle
    asn_reader,   \* state of the ownership handle
    stats,        \* history: handles opened, backend calls, rows, batches
    last          \* history: the latest per-row computation

vars == <<fn, ret, args, infile, outfile, pc, pos, first, detected_ip, ip_col, df,
          geo_series, enriched, exc, city_reader, asn_reader, stats, last>>

(* ---------------------------------------------------------------------- *)
(* Python values                                                           *)
(* ---------------------------------------------------------------------- *)

\* Python's None; no text holds a character named "None".
None == <<"None">>

\* numbers carry their Python type, as isinstance() reads it
Float(micro) == <<"float", micro>>

PyInt(n) == <<"int", n>>

\* truthiness of an optional string: None and "" are falsy
Truthy(x) == x # None /\ x # <<>>

\* Python's `x or y`
Or(x, y) == IF Truthy(x) THEN x ELSE y

(* ---------------------------------------------------------------------- *)
(* str methods                                                             *)
(* ---------------------------------------------------------------------- *)

IsSpace(ch) == ch \in {" ", "\t"}

RECURSIVE lstrip(_)
lstrip(s) == IF s # <<>> /\ IsSpace(Head(s)) THEN lstrip(Tail(s)) ELSE s

RECURSIVE rstrip(_)
rstrip(s) ==
    IF s # <<>> /\ IsSpace(s[Len(s)]) THEN rstrip(SubSeq(s, 1, Len(s) - 1)) ELSE s

strip(s) == rstrip(lstrip(s))

UpperAlphabet ==
    <<"A","B","C","D","E","F","G","H","I","J","K","L","M",
      "N","O","P","Q","R","S","T","U","V","W","X","Y","Z">>

LowerAlphabet ==
    <<"a","b","c","d","e","f","g","h","i","j","k","l","m",
      "n","o","p","q","r","s","t","u","v","w","x","y","z">>

LowerChar(ch) ==
    IF \E k \in 1..Len(UpperAlphabet) : UpperAlphabet[k] = ch
    THEN LowerAlphabet[CHOOSE k \in 1..Len(UpperAlphabet) : UpperAlphabet[k] = ch]
    ELSE ch

RECURSIVE lower(_)
lower(s) == IF s = <<>> THEN <<>> ELSE <<LowerChar(Head(s))>> \o lower(Tail(s))

RECURSIVE split(_, _)
split(s, sep) ==
    IF \E i \in 1..Len(s) : s[i] = sep
    THEN LET i == CHOOSE k \in 1..Len(s) :
                      s[k] = sep /\ \A j \in 1..(k - 1) : s[j] # sep
         IN  <<SubSeq(s, 1, i - 1)>> \o split(SubSeq(s, i + 1, Len(s)), sep)
    ELSE <<s>>

RECURSIVE join(_, _)
join(sep, parts) ==
    IF parts = <<>> THEN <<>>
    ELSE IF Len(parts) = 1 THEN parts[1]
    ELSE parts[1] \o sep \o join(sep, Tail(parts))

Digits == <<"0","1","2","3","4","5","6","7","8","9">>

IsDigit(ch) == \E d \in 1..Len(Digits) : Digits[d] = ch

DigitVal(ch) == (CHOOSE d \in 1..Len(Digits) : Digits[d] = ch) - 1

RECURSIVE DecVal(_)
DecVal(s) ==
    IF s = <<>> THEN 0
    ELSE DecVal(SubSeq(s, 1, Len(s) - 1)) * 10 + DigitVal(s[Len(s)])

\* str(n) of a natural number
RECURSIVE NatStr(_)
NatStr(n) ==
    IF n < 10 THEN <<Digits[n + 1]>>
    ELSE NatStr(n \div 10) \o <<Digits[(n % 10) + 1]>>

\* f"{n}" of an int
IntStr(n) == IF n < 0 THEN <<"-">> \o NatStr(0 - n) ELSE NatStr(n)

RECURSIVE ZeroPad(_, _)
ZeroPad(s, width) == IF Len(s) >= width THEN s ELSE ZeroPad(<<"0">> \o s, width)

\* the 6 of the format ".6f"
Precision == 6

Million == 10 ^ Precision

\* f"{x:.6f}" of a number given in millionths
Fixed6(micro) ==
    LET a == IF micro < 0 THEN 0 - micro ELSE micro
    IN  (IF micro < 0 THEN <<"-">> ELSE <<>>)
        \o NatStr(a \div Million) \o <<".">> \o ZeroPad(NatStr(a % Million), Precision)

\* the value of a number in millionths: an int n is n.000000
Micro(x) == IF x[1] = "int" THEN x[2] * Million ELSE x[2]

(* ---------------------------------------------------------------------- *)
(* ipaddress.ip_address, for the dotted-quad addresses of the model         *)
(* ---------------------------------------------------------------------- *)

IsOctet(p) ==
    /\ Len(p) \in 1..3
    /\ \A i \in 1..Len(p) : IsDigit(p[i])
    /\ (Len(p) > 1 => p[1] # "0")
    /\ DecVal(p) <= 255

\* [ok |-> FALSE] is the ValueError
ip_address(s) ==
    LET parts == split(s, ".")
    IN  IF Len(parts) = 4 /\ \A i \in 1..4 : IsOctet(parts[i])
        THEN [ok |-> TRUE, o |-> [i \in 1..4 |-> DecVal(parts[i])]]
        ELSE [ok |-> FALSE, o |-> <<>>]

is_multicast(o) == o[1] \in 224..239

is_reserved(o) == o[1] >= 240

is_loopback(o) == o[1] = 127

is_link_local(o) == o[1] = 169 /\ o[2] = 254

is_private(o) ==
    \/ o[1] \in {0, 10, 127}
    \/ o[1] = 169 /\ o[2] = 254
    \/ o[1] = 172 /\ o[2] \in 16..31
    \/ o[1] = 192 /\ o[2] = 0 /\ o[3] = 0 /\ o[4] \in (0..7) \cup {170, 171}
    \/ o[1] = 192 /\ o[2] = 0 /\ o[3] = 2
    \/ o[1] = 192 /\ o[2] = 168
    \/ o[1] = 198 /\ o[2] \in {18, 19}
    \/ o[1] = 198 /\ o[2] = 51 /\ o[3] = 100
    \/ o[1] = 203 /\ o[2] = 0 /\ o[3] = 113
    \/ o[1] >= 240

\* is_public_ip without the routability test: every parsable address is public
is_public_ip_any(s) == ip_address(strip(s)).ok

is_public_ip(s) ==
    LET ip == ip_address(strip(s))
    IN  IF ~ip.ok THEN FALSE
        ELSE ~(\/ is_private(ip.o) \/ is_loopback(ip.o) \/ is_reserved(ip.o)
               \/ is_link_local(ip.o) \/ is_multicast(ip.o))

\* the three classes of the data model, read off the same parse
Classify(s) ==
    LET ip == ip_address(strip(s))
    IN  IF ~ip.ok THEN "Invalid"
        ELSE IF \/ is_private(ip.o) \/ is_loopback(ip.o) \/ is_reserved(ip.o)
                \/ is_link_local(ip.o) \/ is_multicast(ip.o)
             THEN "NonRoutable"
             ELSE "Public"

(* ---------------------------------------------------------------------- *)
(* lookup                                                                  *)
(* ---------------------------------------------------------------------- *)

\* A reader object holds its database: a function from addresses to the outcome
\* of a query, a response or an exception (AddressNotFoundError or any other).
Reader(db) == <<"Reader", db>>

NotFound == [raised |-> TRUE, resp |-> [none |-> TRUE]]

Found(r) == [raised |-> FALSE, resp |-> r]

\* reader.city(ip), reader.asn(ip)
Query(reader, ip) == IF ip \in DOMAIN reader[2] THEN reader[2][ip] ELSE NotFound

\* the try block of the location source
CityPart(cr, ip) ==
    LET q == Query(cr, ip)
        r == q.resp
        subs == r.subdivisions
        ms == subs[Len(subs)]
    IN  IF q.raised
        THEN [country_iso |-> None, region |-> None, city |-> None,
              lat |-> None, lon |-> None]
        ELSE [country_iso |-> r.country,
              region |-> IF Len(subs) > 0 THEN Or(ms.name, ms.iso_code) ELSE None,
              city |-> r.city,
              lat |-> r.latitude,
              lon |-> r.longitude]

\* the try block of the ownership source; raised is what leaves the block
AsnPart(ar, ip) ==
    IF ar = None
    THEN [asn |-> None, org |-> None, called |-> FALSE, raised |-> FALSE]
    ELSE LET q == Query(ar, ip)
         IN  IF q.raised
             THEN [asn |-> None, org |-> None, called |-> TRUE, raised |-> FALSE]
             ELSE [asn |-> q.resp.autonomous_system_number,
                   org |-> q.resp.autonomous_system_organization,
                   called |-> TRUE, raised |-> FALSE]

\* lookup with both queries in one try block: a failure of the location source
\* skips the ownership source
lookup_one_try(cr, ar, ip) ==
    LET c == CityPart(cr, ip)
        failed == Query(cr, ip).raised
        a == IF failed THEN AsnPart(None, ip) ELSE AsnPart(ar, ip)
    IN  [country_iso |-> c.country_iso, region |-> c.region, city |-> c.city,
         lat |-> c.lat, lon |-> c.lon, asn |-> a.asn, org |-> a.org,
         cityCalled |-> TRUE, asnCalled |-> a.called, raised |-> a.raised]

\* lookup(cr, ar, ip): the result, the backends it asked and
\* whether an exception leaves it
lookup(cr, ar, ip) ==
    LET c == CityPart(cr, ip)
        a == AsnPart(ar, ip)
    IN  [country_iso |-> c.country_iso, region |-> c.region, city |-> c.city,
         lat |-> c.lat, lon |-> c.lon, asn |-> a.asn, org |-> a.org,
         cityCalled |-> TRUE, asnCalled |-> a.called, raised |-> a.raised]

(* ---------------------------------------------------------------------- *)
(* format_geoip                                                            *)
(* ---------------------------------------------------------------------- *)

IsNumber(x) == x[1] \in {"float", "int"}

IsInt(x) == x[1] = "int"

format_geoip(country_iso, region, city, lat, lon, asn, org) ==
    LET parts == <<
            Or(country_iso, <<>>),
            Or(region, <<>>),
            Or(city, <<>>),
            IF IsNumber(lat) THEN Fixed6(Micro(lat)) ELSE <<>>,
            IF IsNumber(lon) THEN Fixed6(Micro(lon)) ELSE <<>>,
            IF IsInt(asn) THEN <<"A", "S">> \o IntStr(asn[2]) ELSE <<>>,
            Or(org, <<>>) >>
    IN  join(<<"|">>, parts)

(* ---------------------------------------------------------------------- *)
(* text used by the program and by the runs                                *)
(* ---------------------------------------------------------------------- *)

s_ip == <<"i","p">>

s_ip_address == <<"i","p","_","a","d","d","r","e","s","s">>

s_client_ip == <<"c","l","i","e","n","t","_","i","p">>

s_source_ip == <<"s","o","u","r","c","e","_","i","p">>

s_src_ip == <<"s","r","c","_","i","p">>

s_dst_ip == <<"d","s","t","_","i","p">>

s_remote_ip == <<"r","e","m","o","t","e","_","i","p">>

s_geoip == <<"g","e","o","i","p">>

s_invalid_ip == <<"i","n","v","a","l","i","d","_","i","p">>

s_nan == <<"n","a","n">>

\* column names of the runs
n_IP == <<"I","P">>

n_src == <<"s","r","c">>

n_msg == <<"m","s","g">>

\* addresses of the runs
a_pub == <<"8",".","8",".","8",".","8">>

a_pub_padded == <<" ","8",".","8",".","8",".","8"," ">>

a_miss == <<"1",".","1",".","1",".","1">>

a_priv == <<"1","0",".","0",".","0",".","1">>

a_priv_padded == <<"1","0",".","0",".","0",".","1"," ">>

a_priv172 == <<"1","7","2",".","1","6",".","0",".","1">>

a_priv192 == <<"1","9","2",".","1","6","8",".","1",".","1">>

a_loop == <<"1","2","7",".","0",".","0",".","1">>

a_link == <<"1","6","9",".","2","5","4",".","1",".","1">>

a_mcast == <<"2","2","4",".","0",".","0",".","1">>

a_resv == <<"2","4","0",".","0",".","0",".","1">>

a_text == <<"x">>

a_blank == <<" ">>

a_big == <<"2","5","6",".","1",".","1",".","1">>

a_short == <<"1",".","2",".","3">>

a_zero == <<"0","1",".","2",".","3",".","4">>

(* ---------------------------------------------------------------------- *)
(* the databases of the runs                                               *)
(* ---------------------------------------------------------------------- *)

\* the location database: 8.8.8.8 resolves to US, no region, no city,
\* 37.751000, -97.822000; 1.1.1.1 is not in it
CityDB ==
    (a_pub :> Found([country |-> <<"U","S">>, subdivisions |-> <<>>, city |-> None,
                     latitude |-> Float(37751000), longitude |-> Float(-97822000)]))
    @@ (a_miss :> NotFound)

\* the ownership database
AsnDB ==
    (a_pub :> Found([autonomous_system_number |-> PyInt(15169),
                     autonomous_system_organization |-> <<"G">>]))
    @@ (a_miss :> NotFound)

(* ---------------------------------------------------------------------- *)
(* enrich_dataframe.compute                                                *)
(* ---------------------------------------------------------------------- *)

\* a missing value, as pandas reads it with na_filter
NaN == <<"NaN">>

IsStr(v) == v # NaN

\* Series.astype(str)
AsStr(v) == IF v = NaN THEN s_nan ELSE v

NoCall(value) ==
    [value |-> value, cityCalled |-> FALSE, asnCalled |-> FALSE, raised |-> FALSE]

compute(ip_val, cr, ar) ==
    LET s == strip(ip_val)
    IN  IF ~IsStr(ip_val) THEN NoCall(<<>>)
        ELSE IF s = <<>> THEN NoCall(<<>>)
        ELSE IF ~is_public_ip(s) THEN NoCall(<<>>)
        ELSE LET r == lookup(cr, ar, s)
             IN  [value |-> format_geoip(r.country_iso, r.region, r.city,
                                         r.lat, r.lon, r.asn, r.org),
                  cityCalled |-> r.cityCalled, asnCalled |-> r.asnCalled,
                  raised |-> r.raised]

(* ---------------------------------------------------------------------- *)
(* tables                                                                  *)
(* ---------------------------------------------------------------------- *)

NoFrame == [columns |-> <<>>, rows |-> <<>>]

InSeq(x, seq) == \E i \in 1..Len(seq) : seq[i] = x

\* list.index(x), counted from 1
IndexOf(seq, x) ==
    CHOOSE i \in 1..Len(seq) : seq[i] = x /\ \A j \in 1..(i - 1) : seq[j] # x

SetMin(S) == CHOOSE m \in S : \A k \in S : m <= k

\* DataFrame.head(n), Series.head(n)
head(seq, n) == SubSeq(seq, 1, IF Len(seq) < n THEN Len(seq) ELSE n)

\* the values pandas reads as missing when na_filter is on
NaValues == {<<>>, s_nan, <<"N","A">>}

\* pd.read_csv of the rows handed over
read_csv(columns, rows, na_filter) ==
    [columns |-> columns,
     rows |-> [r \in 1..Len(rows) |->
                  [j \in 1..Len(rows[r]) |->
                      IF na_filter /\ rows[r][j] \in NaValues THEN NaN
                      ELSE rows[r][j]]]]

\* the lines DataFrame.to_csv(index=False, header=header) writes
to_csv(frame, header) ==
    (IF header THEN <<frame.columns>> ELSE <<>>)
    \o [r \in 1..Len(frame.rows) |->
           [j \in 1..Len(frame.rows[r]) |->
               IF frame.rows[r][j] = NaN THEN <<>> ELSE frame.rows[r][j]]]

(* ---------------------------------------------------------------------- *)
(* autodetect_ip_col                                                       *)
(* ---------------------------------------------------------------------- *)

common ==
    <<s_ip, s_ip_address, s_client_ip, s_source_ip, s_src_ip, s_dst_ip, s_remote_ip>>

HeadRows == 1000

HeadVals == 200

NotNull(v) == v # NaN

Parses(v) == ip_address(strip(v)).ok

\* sample[c].dropna().astype(str).head(200).tolist()
SampleVals(rows, j) ==
    LET col == [r \in 1..Len(rows) |-> rows[r][j]]
        kept == SelectSeq(col, NotNull)
    IN  head([k \in 1..Len(kept) |-> AsStr(kept[k])], HeadVals)

\* hits / tot >= 0.5 over the sampled values of column j
LooksLikeIPs(rows, j) ==
    LET vals == SampleVals(rows, j)
        tot == Len(vals)
        hits == Len(SelectSeq(vals, Parses))
    IN  tot > 0 /\ 2 * hits >= tot

autodetect_ip_col(frame) ==
    LET cols == frame.columns
        named == {j \in 1..Len(cols) : InSeq(lower(cols[j]), common)}
        sample == head(frame.rows, HeadRows)
        stat == {j \in 1..Len(cols) : LooksLikeIPs(sample, j)}
    IN  IF named # {} THEN cols[SetMin(named)]
        ELSE IF stat # {} THEN cols[SetMin(stat)]
        ELSE None

(* ---------------------------------------------------------------------- *)
(* enrich_dataframe: the column insertion                                  *)
(* ---------------------------------------------------------------------- *)

\* list.insert(loc, x) / DataFrame.insert(loc, ...), loc counted from 0
InsertAt(seq, loc, x) == SubSeq(seq, 1, loc) \o <<x>> \o SubSeq(seq, loc + 1, Len(seq))

\* df_out[new_cols]: the columns picked by name
SelectColumns(frame, names) ==
    [columns |-> names,
     rows |-> [r \in 1..Len(frame.rows) |->
                  [k \in 1..Len(names) |->
                      frame.rows[r][IndexOf(frame.columns, names[k])]]]]

\* the insertion with the new column placed left of the IP column
InsertColumnBefore(frame, ipc, geoc, series) ==
    LET cols == frame.columns
        ip_idx == IndexOf(cols, ipc) - 1
        new_cols == SubSeq(cols, 1, ip_idx) \o <<geoc>>
                    \o SubSeq(cols, ip_idx + 1, Len(cols))
        df_out == [columns |-> InsertAt(cols, ip_idx + 1, geoc),
                   rows |-> [r \in 1..Len(frame.rows) |->
                                InsertAt(frame.rows[r], ip_idx + 1, series[r])]]
    IN  IF InSeq(geoc, cols)
        THEN [error |-> "ValueError", frame |-> NoFrame]
        ELSE [error |-> "none", frame |-> SelectColumns(df_out, new_cols)]

\* the insertion with duplicates allowed: a collision goes through silently
InsertColumnSilent(frame, ipc, geoc, series) ==
    LET cols == frame.columns
        ip_idx == IndexOf(cols, ipc) - 1
        new_cols == SubSeq(cols, 1, ip_idx + 1) \o <<geoc>>
                    \o SubSeq(cols, ip_idx + 2, Len(cols))
        df_out == [columns |-> InsertAt(cols, ip_idx + 1, geoc),
                   rows |-> [r \in 1..Len(frame.rows) |->
                                InsertAt(frame.rows[r], ip_idx + 1, series[r])]]
    IN  [error |-> "none", frame |-> SelectColumns(df_out, new_cols)]

\* DataFrame.insert raises ValueError when the column exists already
InsertColumn(frame, ipc, geoc, series) ==
    LET cols == frame.columns
        ip_idx == IndexOf(cols, ipc) - 1
        new_cols == SubSeq(cols, 1, ip_idx + 1) \o <<geoc>>
                    \o SubSeq(cols, ip_idx + 2, Len(cols))
        df_out == [columns |-> InsertAt(cols, ip_idx + 1, geoc),
                   rows |-> [r \in 1..Len(frame.rows) |->
                                InsertAt(frame.rows[r], ip_idx + 1, series[r])]]
    IN  IF InSeq(geoc, cols)
        THEN [error |-> "ValueError", frame |-> NoFrame]
        ELSE [error |-> "none", frame |-> SelectColumns(df_out, new_cols)]

(* ---------------------------------------------------------------------- *)
(* process_all and enrich_dataframe, statement by statement                *)
(* ---------------------------------------------------------------------- *)

MaxRows == 2

MaxChunk == MaxRows + 1

\* rows of the input tables, cut to the width of the schema
RowPool ==
    { <<a_pub, a_text, a_priv>>,
      <<a_text, a_pub, a_pub>>,
      <<a_priv, <<>>, a_miss>> }

Schemas ==
    { <<n_IP>>, <<n_msg, n_IP>>, <<n_IP, n_msg>>, <<n_src, n_msg>>,
      <<n_src, s_geoip>>, <<n_msg, n_src, n_IP>> }

Tables ==
    { [columns |-> sch,
       rows |-> [r \in 1..n |-> SubSeq(pick[r], 1, Len(sch))]] :
        sch \in Schemas, n \in 1..MaxRows, pick \in [1..MaxRows -> RowPool] }

Args ==
    [chunksize : 0..MaxChunk,
     ip_col : {None, n_src},
     geoip_col : {s_geoip, n_msg},
     asn_db : {None, <<"a","s","n",".","m","m","d","b">>},
     na_filter : BOOLEAN]

\* what the output path holds before the run: the output of an earlier run
StaleFile == << <<a_text>> >>

NoStats ==
    [cityOpens |-> 0, asnOpens |-> 0, cityCalls |-> 0, asnCalls |-> 0,
     publicRows |-> 0, nonRoutableRows |-> 0, batches |-> 0]

NoRow == [cell |-> None, value |-> None, cityCalled |-> FALSE, asnCalled |-> FALSE]

NotDone == [done |-> FALSE, v |-> None]

Init ==
    /\ fn = [op |-> "process_all"]
    /\ ret = NotDone
    /\ args \in Args
    /\ infile \in Tables
    /\ outfile = StaleFile
    /\ pc = "start"
    /\ pos = 0
    /\ first = TRUE
    /\ detected_ip = None
    /\ ip_col = None
    /\ df = NoFrame
    /\ geo_series = <<>>
    /\ enriched = NoFrame
    /\ exc = "none"
    /\ city_reader = "unset"
    /\ asn_reader = "unset"
    /\ stats = NoStats
    /\ last = NoRow

unit == <<fn, ret>>

input == <<args, infile>>

handles == <<city_reader, asn_reader>>

\* line 173
Chunked == args.chunksize > 0

\* lines 175-177
StartChunked ==
    /\ pc = "start" /\ Chunked
    /\ pc' = "next_chunk"
    /\ first' = TRUE
    /\ detected_ip' = None
    /\ pos' = 0
    /\ UNCHANGED <<unit, input, outfile, ip_col, df, geo_series, enriched, exc,
                   handles, stats, last>>

\* line 192
StartWhole ==
    /\ pc = "start" /\ ~Chunked
    /\ df' = read_csv(infile.columns, infile.rows, args.na_filter)
    /\ pos' = Len(infile.rows)
    /\ pc' = "resolve_whole"
    /\ UNCHANGED <<unit, input, outfile, first, detected_ip, ip_col, geo_series,
                   enriched, exc, handles, stats, last>>

\* pd.read_csv or the chunk iterator raises: lines 175, 178, 192
ReadFails ==
    /\ pc \in {"start", "next_chunk"}
    /\ pc' = "failed"
    /\ exc' = "IOError"
    /\ UNCHANGED <<unit, input, outfile, pos, first, detected_ip, ip_col, df,
                   geo_series, enriched, handles, stats, last>>

\* line 178: the next chunk
NextChunk ==
    /\ pc = "next_chunk" /\ pos < Len(infile.rows)
    /\ LET to == IF pos + args.chunksize < Len(infile.rows)
                 THEN pos + args.chunksize ELSE Len(infile.rows)
       IN  /\ df' = read_csv(infile.columns, SubSeq(infile.rows, pos + 1, to),
                             args.na_filter)
           /\ pos' = to
    /\ pc' = "resolve"
    /\ UNCHANGED <<unit, input, outfile, first, detected_ip, ip_col, geo_series,
                   enriched, exc, handles, stats, last>>

\* line 178 exhausted, line 198
Finish ==
    /\ pc = "next_chunk" /\ pos >= Len(infile.rows)
    /\ pc' = "done"
    /\ UNCHANGED <<unit, input, outfile, pos, first, detected_ip, ip_col, df,
                   geo_series, enriched, exc, handles, stats, last>>

\* lines 179-185
ResolveChunked ==
    /\ pc = "resolve"
    /\ IF Truthy(args.ip_col)
       THEN /\ ip_col' = args.ip_col
            /\ pc' = "open_city"
            /\ UNCHANGED <<detected_ip, exc>>
       ELSE LET d == Or(detected_ip, autodetect_ip_col(df))
            IN  /\ detected_ip' = d
                /\ IF ~Truthy(d)
                   THEN pc' = "failed" /\ exc' = "SystemExit" /\ UNCHANGED ip_col
                   ELSE pc' = "open_city" /\ ip_col' = d /\ UNCHANGED exc
    /\ UNCHANGED <<unit, input, outfile, pos, first, df, geo_series, enriched,
                   handles, stats, last>>

\* lines 193-195
ResolveWhole ==
    /\ pc = "resolve_whole"
    /\ LET c == Or(args.ip_col, autodetect_ip_col(df))
       IN  /\ ip_col' = c
           /\ IF ~Truthy(c)
              THEN pc' = "failed" /\ exc' = "SystemExit"
              ELSE pc' = "open_city" /\ UNCHANGED exc
    /\ UNCHANGED <<unit, input, outfile, pos, first, detected_ip, df, geo_series,
                   enriched, handles, stats, last>>

\* line 135
OpenCity ==
    /\ pc = "open_city"
    /\ city_reader' = "open"
    /\ asn_reader' = "unset"
    /\ stats' = [stats EXCEPT !.cityOpens = @ + 1]
    /\ pc' = "open_asn"
    /\ UNCHANGED <<unit, input, outfile, pos, first, detected_ip, ip_col, df,
                   geo_series, enriched, exc, last>>

\* line 135 raises: the database cannot be opened
OpenCityFails ==
    /\ pc = "open_city"
    /\ pc' = "failed"
    /\ exc' = "ReaderError"
    /\ UNCHANGED <<unit, input, outfile, pos, first, detected_ip, ip_col, df,
                   geo_series, enriched, handles, stats, last>>

\* line 136
OpenAsn ==
    /\ pc = "open_asn"
    /\ IF Truthy(args.asn_db)
       THEN asn_reader' = "open" /\ stats' = [stats EXCEPT !.asnOpens = @ + 1]
       ELSE asn_reader' = "none" /\ UNCHANGED stats
    /\ pc' = "select"
    /\ UNCHANGED <<unit, input, outfile, pos, first, detected_ip, ip_col, df,
                   geo_series, enriched, exc, city_reader, last>>

\* line 136 raises, before the try block is entered
OpenAsnFails ==
    /\ pc = "open_asn" /\ Truthy(args.asn_db)
    /\ pc' = "failed"
    /\ exc' = "ReaderError"
    /\ UNCHANGED <<unit, input, outfile, pos, first, detected_ip, ip_col, df,
                   geo_series, enriched, handles, stats, last>>

\* line 150: df[ip_col]
SelectIp ==
    /\ pc = "select"
    /\ geo_series' = <<>>
    /\ IF InSeq(ip_col, df.columns)
       THEN pc' = "apply" /\ UNCHANGED exc
       ELSE pc' = "finally" /\ exc' = "KeyError"
    /\ UNCHANGED <<unit, input, outfile, pos, first, detected_ip, ip_col, df,
                   enriched, handles, stats, last>>

\* the reader objects compute closes over
CityReader == Reader(CityDB)

AsnReader == IF asn_reader = "open" THEN Reader(AsnDB) ELSE None

B2N(b) == IF b THEN 1 ELSE 0

\* line 150: apply(compute), one row
ComputeRow ==
    /\ pc = "apply" /\ Len(geo_series) < Len(df.rows)
    /\ LET r == Len(geo_series) + 1
           cell == AsStr(df.rows[r][IndexOf(df.columns, ip_col)])
           c == compute(cell, CityReader, AsnReader)
           class == Classify(cell)
       IN  /\ geo_series' = Append(geo_series, c.value)
           /\ stats' = [stats EXCEPT
                           !.cityCalls = @ + B2N(c.cityCalled),
                           !.asnCalls = @ + B2N(c.asnCalled),
                           !.publicRows = @ + B2N(class = "Public"),
                           !.nonRoutableRows = @ + B2N(class = "NonRoutable")]
           /\ last' = [cell |-> cell, value |-> c.value,
                       cityCalled |-> c.cityCalled, asnCalled |-> c.asnCalled]
           /\ IF c.raised
              THEN pc' = "finally" /\ exc' = "Exception"
              ELSE UNCHANGED <<pc, exc>>
    /\ UNCHANGED <<unit, input, outfile, pos, first, detected_ip, ip_col, df,
                   enriched, handles>>

\* lines 153-160
Insert ==
    /\ pc = "apply" /\ Len(geo_series) = Len(df.rows)
    /\ LET r == InsertColumn(df, ip_col, args.geoip_col, geo_series)
       IN  exc' = r.error /\ enriched' = r.frame
    /\ pc' = "finally"
    /\ UNCHANGED <<unit, input, outfile, pos, first, detected_ip, ip_col, df,
                   geo_series, handles, stats, last>>

\* lines 161-164, then the return or the raise
CloseReaders ==
    /\ pc = "finally"
    /\ city_reader' = "closed"
    /\ asn_reader' = IF asn_reader = "open" THEN "closed" ELSE asn_reader
    /\ pc' = IF exc = "none" THEN "write" ELSE "failed"
    /\ UNCHANGED <<unit, input, outfile, pos, first, detected_ip, ip_col, df,
                   geo_series, enriched, exc, stats, last>>

\* line 187
WriteMode(f) == IF f THEN "w" ELSE "a"

\* a header with every batch
CsvHeaderAlways(f) == TRUE

\* line 188
CsvHeader(f) == f

\* lines 187-190
WriteChunk ==
    /\ pc = "write" /\ Chunked
    /\ LET lines == to_csv(enriched, CsvHeader(first))
       IN  outfile' = IF WriteMode(first) = "w" THEN lines ELSE outfile \o lines
    /\ first' = FALSE
    /\ stats' = [stats EXCEPT !.batches = @ + 1]
    /\ pc' = "next_chunk"
    /\ UNCHANGED <<unit, input, pos, detected_ip, ip_col, df, geo_series, enriched,
                   exc, handles, last>>

\* line 197
WriteWhole ==
    /\ pc = "write" /\ ~Chunked
    /\ outfile' = to_csv(enriched, TRUE)
    /\ stats' = [stats EXCEPT !.batches = @ + 1]
    /\ pc' = "done"
    /\ UNCHANGED <<unit, input, pos, first, detected_ip, ip_col, df, geo_series,
                   enriched, exc, handles, last>>

\* to_csv raises: the file could not be opened (nothing changes), or the write
\* stopped after some of the lines
WriteFails ==
    /\ pc = "write"
    /\ LET hdr == IF Chunked THEN CsvHeader(first) ELSE TRUE
           mode == IF Chunked THEN WriteMode(first) ELSE "w"
           lines == to_csv(enriched, hdr)
       IN  \/ UNCHANGED outfile
           \/ \E k \in 0..Len(lines) :
                 outfile' = IF mode = "w" THEN SubSeq(lines, 1, k)
                            ELSE outfile \o SubSeq(lines, 1, k)
    /\ pc' = "failed"
    /\ exc' = "IOError"
    /\ UNCHANGED <<unit, input, pos, first, detected_ip, ip_col, df, geo_series,
                   enriched, handles, stats, last>>

Next ==
    \/ StartChunked \/ StartWhole \/ ReadFails \/ NextChunk \/ Finish
    \/ ResolveChunked \/ ResolveWhole
    \/ OpenCity \/ OpenCityFails \/ OpenAsn \/ OpenAsnFails
    \/ SelectIp \/ ComputeRow \/ Insert \/ CloseReaders
    \/ WriteChunk \/ WriteWhole \/ WriteFails

Spec == Init /\ [][Next]_vars

(* ---------------------------------------------------------------------- *)
(* unit runs: one function applied to drawn arguments                      *)
(* ---------------------------------------------------------------------- *)

PipelineIdle ==
    /\ args = [chunksize |-> 0, ip_col |-> None, geoip_col |-> s_geoip,
               asn_db |-> None, na_filter |-> FALSE]
    /\ infile = NoFrame
    /\ outfile = <<>>
    /\ pc = "unit"
    /\ pos = 0
    /\ first = TRUE
    /\ detected_ip = None
    /\ ip_col = None
    /\ df = NoFrame
    /\ geo_series = <<>>
    /\ enriched = NoFrame
    /\ exc = "none"
    /\ city_reader = "unset"
    /\ asn_reader = "unset"
    /\ stats = NoStats
    /\ last = NoRow

pipeline == <<args, infile, outfile, pc, pos, first, detected_ip, ip_col, df,
              geo_series, enriched, exc, city_reader, asn_reader, stats, last>>

s_US == <<"U","S">>

s_WA == <<"W","A">>

\* what a location query can come back with
Subdivisions ==
    { <<>>,
      << [name |-> <<"W","a","s","h">>, iso_code |-> s_WA] >>,
      << [name |-> None, iso_code |-> s_WA] >>,
      << [name |-> None, iso_code |-> None] >>,
      << [name |-> <<"E","n","g">>, iso_code |-> <<"E","N","G">>],
         [name |-> <<>>, iso_code |-> <<"L","N","D">>] >> }

CityOutcomes ==
    {NotFound} \cup
    { Found([country |-> c, subdivisions |-> sd, city |-> ci,
             latitude |-> la, longitude |-> lo]) :
        c \in {None, s_US}, sd \in Subdivisions, ci \in {None, <<"S">>},
        la \in {None, Float(37751000)}, lo \in {None, Float(-97822000)} }

AsnOutcomes ==
    {NotFound} \cup
    { Found([autonomous_system_number |-> n, autonomous_system_organization |-> o]) :
        n \in {None, PyInt(15169)}, o \in {None, <<"G">>} }

InitLookup ==
    /\ PipelineIdle
    /\ ret = NotDone
    /\ fn \in { [op |-> "lookup", city_reader |-> Reader(a_pub :> c), asn_reader |-> a,
                  ip |-> a_pub] :
                 c \in CityOutcomes,
                 a \in {None} \cup {Reader(a_pub :> o) : o \in AsnOutcomes} }

CallLookup ==
    /\ fn.op = "lookup" /\ ~ret.done
    /\ ret' = [done |-> TRUE, v |-> lookup(fn.city_reader, fn.asn_reader, fn.ip)]
    /\ UNCHANGED <<fn, pipeline>>

SpecLookup == InitLookup /\ [][CallLookup]_vars

InitFormat ==
    /\ PipelineIdle
    /\ ret = NotDone
    /\ fn \in [op : {"format_geoip"},
                country_iso : {None, <<>>, s_US, <<"U","|","S">>},
                region : {None, s_WA},
                city : {None, <<"S">>},
                lat : {None, Float(37751000), PyInt(37)},
                lon : {None, Float(-97822000), Float(5)},
                asn : {None, PyInt(15169)},
                org : {None, <<"G">>, <<"A","|","B">>}]

CallFormat ==
    /\ fn.op = "format_geoip" /\ ~ret.done
    /\ ret' = [done |-> TRUE,
               v |-> format_geoip(fn.country_iso, fn.region, fn.city, fn.lat,
                                  fn.lon, fn.asn, fn.org)]
    /\ UNCHANGED <<fn, pipeline>>

SpecFormat == InitFormat /\ [][CallFormat]_vars

AddrSamples ==
    { a_pub, a_pub_padded, a_miss, a_priv, a_priv_padded, a_priv172, a_priv192,
      a_loop, a_link, a_mcast, a_resv, a_text, a_blank, <<>>, a_big, a_short,
      a_zero, s_nan }

\* the command line (lines 44-47) and one cell of the IP column
InitCompute ==
    /\ PipelineIdle
    /\ ret = NotDone
    /\ fn \in [op : {"compute"},
                ip_val : AddrSamples,
                keep_invalid : BOOLEAN,
                invalid_marker : {s_invalid_ip, <<"?">>},
                asn_db : {None, <<"a">>}]

CallCompute ==
    /\ fn.op = "compute" /\ ~ret.done
    /\ ret' = [done |-> TRUE,
               v |-> compute(fn.ip_val, Reader(CityDB),
                             IF Truthy(fn.asn_db) THEN Reader(AsnDB) ELSE None)]
    /\ UNCHANGED <<fn, pipeline>>

SpecCompute == InitCompute /\ [][CallCompute]_vars

(* ---------------------------------------------------------------------- *)
(* properties                                                              *)
(* ---------------------------------------------------------------------- *)

\* the ownership reader the configuration asks for
ConfiguredAsn == IF Truthy(args.asn_db) THEN Reader(AsnDB) ELSE None

\* apply(compute) over a whole frame
GeoSeries(frame, ipc, ar) ==
    [r \in 1..Len(frame.rows) |->
        compute(AsStr(frame.rows[r][IndexOf(frame.columns, ipc)]),
                Reader(CityDB), ar).value]

\* lines 192-197 without I/O faults: whether whole-table mode writes, and what
whole_table(a, file) ==
    LET d == read_csv(file.columns, file.rows, a.na_filter)
        c == Or(a.ip_col, autodetect_ip_col(d))
        ar == IF Truthy(a.asn_db) THEN Reader(AsnDB) ELSE None
        r == InsertColumn(d, c, a.geoip_col, GeoSeries(d, c, ar))
    IN  IF ~Truthy(c) \/ ~InSeq(c, d.columns) \/ r.error # "none"
        THEN [ok |-> FALSE, lines |-> <<>>]
        ELSE [ok |-> TRUE, lines |-> to_csv(r.frame, TRUE)]

\* the step-wise whole-table run and whole_table agree
WholeRunIsWholeTable ==
    (~Chunked /\ pc = "done") =>
        whole_table(args, infile).ok /\ outfile = whole_table(args, infile).lines

\* C1: a chunked run that completes has written exactly what whole-table mode
\* writes for the same input, databases and configuration: same header, same
\* rows in input order, same cells including the geoip cell.
C1_ModesAgree ==
    (Chunked /\ pc = "done") =>
        LET w == whole_table(args, infile)
        IN  w.ok /\ outfile = w.lines

\* C2: a row whose IP cell is Valid-Non-Routable makes no call to either
\* backend and gets the empty field; each backend has been asked at most once
\* per Valid-Public row processed so far.
C2_NoLookupForNonRoutable ==
    /\ (last.cell # None /\ Classify(last.cell) = "NonRoutable") =>
           ~last.cityCalled /\ ~last.asnCalled /\ last.value = <<>>
    /\ stats.cityCalls <= stats.publicRows
    /\ stats.asnCalls <= stats.publicRows

\* a non-routable row has been computed after a public row was looked up
C2_Witness ==
    /\ last.cell # None /\ Classify(last.cell) = "NonRoutable"
    /\ stats.publicRows >= 1 /\ stats.cityCalls >= 1 /\ stats.asnCalls >= 1

\* C3: a malformed or empty IP cell never raises and gets the empty field, or
\* the invalid-marker literal when keep-invalid is set and the cell is non-empty.
C3_InvalidGivesEmptyOrMarker ==
    (fn.op = "compute" /\ ret.done /\ Classify(fn.ip_val) = "Invalid") =>
        /\ ~ret.v.raised
        /\ ret.v.value = IF fn.keep_invalid /\ strip(fn.ip_val) # <<>>
                         THEN fn.invalid_marker ELSE <<>>

\* C4: format_geoip's result splits on "|" into exactly 7 parts: country,
\* region, city, lat, lon, asn, org, an absent field being the empty string.
C4_SevenParts ==
    (fn.op = "format_geoip" /\ ret.done) =>
        LET parts == split(ret.v, "|")
        IN  /\ Len(parts) = 7
            /\ parts[1] = Or(fn.country_iso, <<>>)
            /\ parts[2] = Or(fn.region, <<>>)
            /\ parts[3] = Or(fn.city, <<>>)
            /\ (fn.lat = None => parts[4] = <<>>)
            /\ (fn.lon = None => parts[5] = <<>>)
            /\ (fn.asn = None => parts[6] = <<>>)
            /\ parts[7] = Or(fn.org, <<>>)

\* C5: the frame enrich_dataframe returns has the new column at index i + 1,
\* the other columns in their order, the same rows in the same order and every
\* original cell unchanged (i the index of the IP column).
C5_InsertedRightOfIp ==
    (pc \in {"finally", "write"} /\ exc = "none") =>
        LET cols == df.columns
            n == Len(cols)
            i == IndexOf(cols, ip_col)
        IN  /\ Len(enriched.columns) = n + 1
            /\ enriched.columns[i + 1] = args.geoip_col
            /\ \A j \in 1..n :
                   enriched.columns[IF j <= i THEN j ELSE j + 1] = cols[j]
            /\ Len(enriched.rows) = Len(df.rows)
            /\ \A r \in 1..Len(df.rows) :
                   /\ Len(enriched.rows[r]) = n + 1
                   /\ enriched.rows[r][i + 1] = geo_series[r]
                   /\ \A j \in 1..n :
                          enriched.rows[r][IF j <= i THEN j ELSE j + 1] = df.rows[r][j]

\* the IP column is the last of several, and the frame has been returned
C5_Witness ==
    /\ pc = "write" /\ exc = "none"
    /\ Len(df.columns) >= 2 /\ IndexOf(df.columns, ip_col) = Len(df.columns)
    /\ Len(df.rows) >= 2

Collision == InSeq(args.geoip_col, infile.columns)

\* C6: when the new column's name is already in the input schema the run never
\* completes, it ends with an error reported, no frame with a replaced column
\* is produced and nothing is written, in whole-table mode and in batch 1 alike.
C6_CollisionIsReported ==
    Collision =>
        /\ pc \notin {"write", "done"}
        /\ (pc = "failed" => exc # "none")
        /\ enriched = NoFrame
        /\ outfile = StaleFile
        /\ stats.batches = 0

\* a chunked run has hit the collision in its first batch
C6_Witness ==
    /\ Collision /\ Chunked
    /\ pc = "failed" /\ exc = "ValueError"
    /\ Len(geo_series) = Len(df.rows) /\ Len(df.rows) >= 1

\* C7: when the run has ended, normally or by any failure, no opened handle is
\* left unclosed.
C7_HandlesClosedAtExit ==
    pc \in {"done", "failed"} => city_reader # "open" /\ asn_reader # "open"

\* C8: a failure of the location source empties the five location fields and
\* the ownership source is still asked; a failure of the ownership source
\* empties asn and org and leaves the location fields as the location source
\* gave them; without an ownership source asn and org are empty; no exception
\* leaves lookup.
C8_LookupFaultTolerant ==
    (fn.op = "lookup" /\ ret.done) =>
        LET v == ret.v
            q == Query(fn.city_reader, fn.ip)
            subs == q.resp.subdivisions
            hasAsn == fn.asn_reader # None
            qa == Query(fn.asn_reader, fn.ip)
        IN  /\ ~v.raised
            /\ v.cityCalled
            /\ q.raised =>
                   /\ v.country_iso = None /\ v.region = None /\ v.city = None
                   /\ v.lat = None /\ v.lon = None
                   /\ (hasAsn => v.asnCalled)
                   /\ (hasAsn /\ ~qa.raised =>
                          /\ v.asn = qa.resp.autonomous_system_number
                          /\ v.org = qa.resp.autonomous_system_organization)
            /\ (hasAsn /\ qa.raised) =>
                   /\ v.asn = None /\ v.org = None
                   /\ ~q.raised =>
                          /\ v.country_iso = q.resp.country
                          /\ v.city = q.resp.city
                          /\ v.lat = q.resp.latitude
                          /\ v.lon = q.resp.longitude
                          /\ (subs = <<>> => v.region = None)
                          /\ (subs # <<>> =>
                                 v.region \in {subs[Len(subs)].name,
                                               subs[Len(subs)].iso_code})
            /\ ~hasAsn => v.asn = None /\ v.org = None /\ ~v.asnCalled

\* the location source failed and the ownership source answered
C8_Witness ==
    /\ fn.op = "lookup" /\ ret.done
    /\ Query(fn.city_reader, fn.ip).raised
    /\ fn.asn_reader # None
    /\ ret.v.asnCalled /\ ret.v.asn # None /\ ret.v.org # None

\* the rows of the first k batches
RowsOfBatches(k) ==
    IF k * args.chunksize < Len(infile.rows) THEN k * args.chunksize
    ELSE Len(infile.rows)

\* the header and every enriched row, in input order
FullOutput ==
    LET d == read_csv(infile.columns, infile.rows, args.na_filter)
    IN  to_csv(InsertColumn(d, ip_col, args.geoip_col,
                            GeoSeries(d, ip_col, ConfiguredAsn)).frame, TRUE)

\* C9: in chunked mode, once k >= 1 batches are written the file is the header,
\* once, followed by the enriched rows of batches 1..k in input order; a run
\* that fails after that leaves the header and a prefix of the full output.
C9_HeaderOnceThenAppend ==
    (Chunked /\ stats.batches >= 1) =>
        LET m0 == RowsOfBatches(stats.batches)
        IN  IF pc = "failed"
            THEN \E m \in m0..Len(infile.rows) :
                    outfile = SubSeq(FullOutput, 1, 1 + m)
            ELSE outfile = SubSeq(FullOutput, 1, 1 + m0)

\* a batch after the first has failed while it was written
C9_Witness ==
    /\ Chunked /\ stats.batches >= 1
    /\ pc = "failed" /\ exc = "IOError"
    /\ pos > RowsOfBatches(stats.batches)
    /\ Len(outfile) >= 2

\* C10: within one run each backend handle is acquired at most once.
C10_AcquiredOnce == stats.cityOpens <= 1 /\ stats.asnOpens <= 1

====
